---- MODULE Spec2Model ----
(***************************************************************************)
(* Model of gofakeit's CSV generator (csv.go).                             *)
(*                                                                         *)
(* One call of CSV(co *CSVOptions) is modelled as a sequential process:    *)
(* validation, header, the row loop with one step per cell, flush/return.  *)
(* Go strings are sequences of one-character strings, so that ToLower,     *)
(* Sprintf and the csv.Writer quoting are computed rather than assumed.    *)
(***************************************************************************)
EXTENDS Integers, Sequences, FiniteSets, TLC

\* ------------------------------------------------------------------ bounds
MaxRowCount == 3
MaxFields == 2
MinRowCount == 0 - 1

\* ----------------------------------------------------------------- strings
COMMA == ","
TABCH == "\t"
QUOTE == "\""
NL == "\n"
CR == "\r"

\* strings.ToLower on one character (identity outside the upper-case letters)
LowerChar(c) ==
    CASE c = "T" -> "t"
      [] c = "A" -> "a"
      [] c = "B" -> "b"
      [] c = "C" -> "c"
      [] OTHER -> c

\* strings.ToLower
ToLower(s) == [k \in 1..Len(s) |-> LowerChar(s[k])]

Digits == <<"0", "1", "2", "3", "4", "5", "6", "7", "8", "9">>

RECURSIVE NatStr(_)
NatStr(n) == IF n < 10 THEN <<Digits[n + 1]>>
             ELSE NatStr(n \div 10) \o <<Digits[(n % 10) + 1]>>

\* fmt.Sprintf("%d", n)
SprintD(n) == IF n < 0 THEN <<"-">> \o NatStr(0 - n) ELSE NatStr(n)

\* fmt.Sprintf("%v", value) for the value shapes the registry below returns
SprintV(value) ==
    CASE value.t = "string" -> value.s
      [] value.t = "int" -> SprintD(value.n)

StrVal(s) == [t |-> "string", s |-> s, n |-> 0]
IntVal(n) == [t |-> "int", s |-> <<>>, n |-> n]

\* ------------------------------------------------------------------ errors
\* An error is the sequence of the parts of its message; nil is the empty one.
NoErr == <<>>
ErrInvalidDelimiter == <<"Invalid delimiter type">>
ErrMissingFields == <<"Must pass fields in order to build json object(s)">>
ErrMissingRowCount == <<"Must have row count">>
ErrInvalidFunction(fn) == <<"Invalid function, ", fn, " does not exist">>

\* a []byte result: nil, or a (possibly empty) byte sequence
NilBytes == [nil |-> TRUE, data |-> <<>>]
Bytes(d) == [nil |-> FALSE, data |-> d]

\* ------------------------------------------------- the function registry
\* GetFuncLookup and Info.Call live outside csv.go; a registry of three
\* deterministic-interface generators stands for the catalog.
ErrBoom == <<"boom">>
HiThere == <<"h", "i", ",", " ", "t", "h", "e", "r", "e">>

FuncLookups == {"greeting", "number", "flaky"}

\* GetFuncLookup(name): nil when the name is not registered
GetFuncLookup(name) == IF name \in FuncLookups THEN name ELSE "nil"

\* the (value, err) pairs funcInfo.Call may return
Call(funcInfo) ==
    CASE funcInfo = "greeting" -> {[value |-> StrVal(HiThere), err |-> NoErr]}
      [] funcInfo = "number" -> {[value |-> IntVal(7), err |-> NoErr],
                                 [value |-> IntVal(0 - 12), err |-> NoErr]}
      [] funcInfo = "flaky" -> {[value |-> StrVal(<<"a", QUOTE, "b">>), err |-> NoErr],
                                [value |-> StrVal(<<>>), err |-> ErrBoom]}

\* ---------------------------------------------------------------- requests
Field(name, function) == [Name |-> name, Function |-> function]

FieldPool == {
    Field(<<"i", "d">>, "autoincrement"),
    Field(<<"g", "r", "e", "e", "t", "i", "n", "g">>, "greeting"),
    Field(<<"i", "d">>, "number"),
    Field(<<"x">>, "flaky"),
    Field(<<"u">>, "nope") }

RECURSIVE SeqsUpTo(_, _)
SeqsUpTo(S, n) ==
    IF n = 0 THEN {<<>>}
    ELSE LET shorter == SeqsUpTo(S, n - 1)
         IN  shorter \cup {Append(s, e) : s \in {t \in shorter : Len(t) = n - 1}, e \in S}

Delimiters == {
    <<>>, <<COMMA>>, <<TABCH>>,
    <<"t", "a", "b">>, <<"T", "A", "B">>, <<"T", "a", "b">>,
    <<"c", "o", "m", "m", "a">>, <<"|">>, <<COMMA, COMMA>> }

CSVOptions == [Delimiter : Delimiters,
               RowCount : MinRowCount..MaxRowCount,
               Fields : SeqsUpTo(FieldPool, MaxFields)]

\* ------------------------------------------------------------------- state
VARIABLES
    co,       \* the caller's CSVOptions, reached through the pointer
    passed,   \* the CSVOptions value as it was when CSV was called
    pc,       \* position in CSV
    w,        \* the csv.Writer: its Comma and its pending (unflushed) output
    b,        \* the bytes.Buffer behind the writer
    i,        \* row loop index
    ii,       \* field loop index (1-based)
    vr,       \* the row under construction
    grid,     \* the records handed to w.Write, in order
    lookups,  \* the names handed to GetFuncLookup, in order
    calls,    \* the generator calls made: function, row, column, outcome
    ret       \* what CSV returned: [bytes, err]

vars == <<co, passed, pc, w, b, i, ii, vr, grid, lookups, calls, ret>>

\* ------------------------------------------------------------- validation
\* variant: the "tab" alias compared without strings.ToLower
NormalizeDelimiterCaseSensitive(d) ==
    LET d1 == IF d = <<>> THEN <<COMMA>> ELSE d
    IN  IF d1 = <<"t", "a", "b">> THEN <<TABCH>> ELSE d1

\* csv.go 22-27
NormalizeDelimiter(d) ==
    LET d1 == IF d = <<>> THEN <<COMMA>> ELSE d
    IN  IF ToLower(d1) = <<"t", "a", "b">> THEN <<TABCH>> ELSE d1

\* variant: the row count checked before the fields
ValidateRowCountFirst(c) ==
    IF c.Delimiter # <<COMMA>> /\ c.Delimiter # <<TABCH>> THEN ErrInvalidDelimiter
    ELSE IF c.RowCount <= 0 THEN ErrMissingRowCount
    ELSE IF Len(c.Fields) <= 0 THEN ErrMissingFields
    ELSE NoErr

\* variant: a row count of zero accepted (RowCount < 0 for RowCount <= 0)
ValidateZeroRowCount(c) ==
    IF c.Delimiter # <<COMMA>> /\ c.Delimiter # <<TABCH>> THEN ErrInvalidDelimiter
    ELSE IF Len(c.Fields) <= 0 THEN ErrMissingFields
    ELSE IF c.RowCount < 0 THEN ErrMissingRowCount
    ELSE NoErr

\* csv.go 28-40, on the options after normalization
Validate(c) ==
    IF c.Delimiter # <<COMMA>> /\ c.Delimiter # <<TABCH>> THEN ErrInvalidDelimiter
    ELSE IF Len(c.Fields) <= 0 THEN ErrMissingFields
    ELSE IF c.RowCount <= 0 THEN ErrMissingRowCount
    ELSE NoErr

\* ----------------------------------------------------------- csv.Writer
IsSpace(c) == c \in {" ", "\t", "\n", "\r", "\f"}

\* variant: the delimiter left out of the characters that force quoting
fieldNeedsQuotesNoComma(field, comma) ==
    /\ field # <<>>
    /\ \/ field = <<"\\", ".">>
       \/ \E k \in 1..Len(field) : field[k] \in {NL, CR, QUOTE}
       \/ IsSpace(field[1])

\* (*csv.Writer).fieldNeedsQuotes
fieldNeedsQuotes(field, comma) ==
    /\ field # <<>>
    /\ \/ field = <<"\\", ".">>
       \/ \E k \in 1..Len(field) : field[k] \in {NL, CR, QUOTE, comma}
       \/ IsSpace(field[1])

RECURSIVE QuoteBody(_)
QuoteBody(field) ==
    IF field = <<>> THEN <<>>
    ELSE (IF Head(field) = QUOTE THEN <<QUOTE, QUOTE>> ELSE <<Head(field)>>)
         \o QuoteBody(Tail(field))

WriteField(field, comma) ==
    IF fieldNeedsQuotes(field, comma)
    THEN <<QUOTE>> \o QuoteBody(field) \o <<QUOTE>>
    ELSE field

RECURSIVE WriteFields(_, _)
WriteFields(record, comma) ==
    IF record = <<>> THEN <<>>
    ELSE IF Len(record) = 1 THEN WriteField(record[1], comma)
    ELSE WriteField(record[1], comma) \o <<comma>> \o WriteFields(Tail(record), comma)

\* (*csv.Writer).Write: the bytes one record adds (UseCRLF is false)
WriteRecord(record, comma) == WriteFields(record, comma) \o <<NL>>

\* ------------------------------------------------------------------ CSV
\* csv.go 44
WriterComma(delimiter) == delimiter[1]

\* variant: the header filled from the last field to the first
HeaderRowReversed(fields) == [k \in 1..Len(fields) |-> fields[Len(fields) + 1 - k].Name]

\* csv.go 47-50
HeaderRow(fields) == [k \in 1..Len(fields) |-> fields[k].Name]

\* variant: the loop bound inclusive
LoopCondInclusive(idx, rowCount) == idx <= rowCount

\* csv.go 54
LoopCond(idx, rowCount) == idx < rowCount

\* variant: a counter of its own per autoincrement field of the row
AutoValuePerField(idx) ==
    SprintD(idx + Cardinality({k \in 1..(ii - 1) : co.Fields[k].Function = "autoincrement"}))

\* csv.go 60
AutoValue(idx) == SprintD(idx)

\* variant: the unknown function skipped over, what was written is returned
UnknownFunctionReturnWritten(function) == [bytes |-> Bytes(w.pending), err |-> NoErr]

\* csv.go 67
UnknownFunctionReturn(function) == [bytes |-> NilBytes, err |-> ErrInvalidFunction(function)]

\* variant: the rows written so far returned beside the error
CallErrorReturnPartial(err) == [bytes |-> Bytes(w.pending), err |-> err]

\* csv.go 72
CallErrorReturn(err) == [bytes |-> NilBytes, err |-> err]

NoReturn == [bytes |-> NilBytes, err |-> NoErr]

Init ==
    /\ co \in CSVOptions
    /\ passed = co
    /\ pc = "validate"
    /\ w = [Comma |-> COMMA, pending |-> <<>>]
    /\ b = <<>>
    /\ i = 0
    /\ ii = 0
    /\ vr = <<>>
    /\ grid = <<>>
    /\ lookups = <<>>
    /\ calls = <<>>
    /\ ret = NoReturn

\* csv.go 21-40: normalize the delimiter in place, then the three checks
ValidateOptions ==
    /\ pc = "validate"
    /\ co' = [co EXCEPT !.Delimiter = NormalizeDelimiter(@)]
    /\ LET err == Validate(co')
       IN  IF err # NoErr
           THEN pc' = "done" /\ ret' = [bytes |-> NilBytes, err |-> err]
           ELSE pc' = "header" /\ ret' = ret
    /\ UNCHANGED <<passed, w, b, i, ii, vr, grid, lookups, calls>>

\* csv.go 42-51: the buffer, the writer and the header row
WriteHeader ==
    /\ pc = "header"
    /\ LET comma == WriterComma(co.Delimiter)
           header == HeaderRow(co.Fields)
       IN  /\ w' = [Comma |-> comma, pending |-> WriteRecord(header, comma)]
           /\ grid' = <<header>>
    /\ b' = <<>>
    /\ i' = 1
    /\ pc' = "loop"
    /\ UNCHANGED <<co, passed, ii, vr, lookups, calls, ret>>

\* csv.go 54-55: the row loop's test and the fresh row
RowLoop ==
    /\ pc = "loop"
    /\ IF LoopCond(i, co.RowCount)
       THEN /\ vr' = [k \in 1..Len(co.Fields) |-> <<>>]
            /\ ii' = 1
            /\ pc' = "cell"
       ELSE /\ pc' = "flush"
            /\ UNCHANGED <<vr, ii>>
    /\ UNCHANGED <<co, passed, w, b, i, grid, lookups, calls, ret>>

\* the field loop's step after a cell is stored (csv.go 58, 76-77)
NextCell ==
    /\ ii' = ii + 1
    /\ pc' = IF ii = Len(co.Fields) THEN "write" ELSE "cell"

\* csv.go 59-62
CellAutoincrement ==
    /\ pc = "cell"
    /\ co.Fields[ii].Function = "autoincrement"
    /\ vr' = [vr EXCEPT ![ii] = AutoValue(i)]
    /\ NextCell
    /\ UNCHANGED <<co, passed, w, b, i, grid, lookups, calls, ret>>

\* csv.go 64-68
CellUnknownFunction ==
    /\ pc = "cell"
    /\ co.Fields[ii].Function # "autoincrement"
    /\ lookups' = Append(lookups, co.Fields[ii].Function)
    /\ GetFuncLookup(co.Fields[ii].Function) = "nil"
    /\ ret' = UnknownFunctionReturn(co.Fields[ii].Function)
    /\ pc' = "done"
    /\ UNCHANGED <<co, passed, w, b, i, ii, vr, grid, calls>>

\* csv.go 64-76
CellCall ==
    /\ pc = "cell"
    /\ co.Fields[ii].Function # "autoincrement"
    /\ lookups' = Append(lookups, co.Fields[ii].Function)
    /\ LET funcInfo == GetFuncLookup(co.Fields[ii].Function)
       IN  /\ funcInfo # "nil"
           /\ \E out \in Call(funcInfo) :
                /\ calls' = Append(calls, [fn |-> funcInfo, row |-> i, col |-> ii, out |-> out])
                /\ IF out.err # NoErr
                   THEN /\ ret' = CallErrorReturn(out.err)
                        /\ pc' = "done"
                        /\ UNCHANGED <<vr, ii>>
                   ELSE /\ vr' = [vr EXCEPT ![ii] = SprintV(out.value)]
                        /\ NextCell
                        /\ ret' = ret
    /\ UNCHANGED <<co, passed, w, b, i, grid>>

\* csv.go 78 and the loop's i++
WriteRow ==
    /\ pc = "write"
    /\ w' = [w EXCEPT !.pending = @ \o WriteRecord(vr, w.Comma)]
    /\ grid' = Append(grid, vr)
    /\ i' = i + 1
    /\ pc' = "loop"
    /\ UNCHANGED <<co, passed, b, ii, vr, lookups, calls, ret>>

\* csv.go 81-87: Flush, w.Error() (a bytes.Buffer write never fails), return
FlushAndReturn ==
    /\ pc = "flush"
    /\ b' = b \o w.pending
    /\ w' = [w EXCEPT !.pending = <<>>]
    /\ ret' = [bytes |-> Bytes(b'), err |-> NoErr]
    /\ pc' = "done"
    /\ UNCHANGED <<co, passed, i, ii, vr, grid, lookups, calls>>

Next ==
    \/ ValidateOptions
    \/ WriteHeader
    \/ RowLoop
    \/ CellAutoincrement
    \/ CellUnknownFunction
    \/ CellCall
    \/ WriteRow
    \/ FlushAndReturn

Spec == Init /\ [][Next]_vars

\* ------------------------------------------------------ reading the output
\* A delimited-text reader (RFC 4180 quoting), independent of the writer:
\* the records of fields that `data` decodes to under separator `sep`.
\* A character is outside quotes when an even number of quotes precede it.
Nth(K, k) == CHOOSE p \in K : Cardinality({q \in K : q < p}) = k - 1
QuotesBefore(data, p) == Cardinality({q \in 1..(p - 1) : data[q] = QUOTE})
Outside(data, p) == QuotesBefore(data, p) % 2 = 0
RecordEnds(data) == {p \in 1..Len(data) : data[p] = NL /\ Outside(data, p)}
FieldEnds(data, sep) == {p \in 1..Len(data) : data[p] = sep /\ Outside(data, p)}

\* a quoted field loses its enclosing quotes and the second of each doubled quote
Unquote(raw) ==
    IF raw # <<>> /\ raw[1] = QUOTE
    THEN LET inner == SubSeq(raw, 2, Len(raw) - 1)
             kept == {q \in 1..Len(inner) :
                         inner[q] # QUOTE \/ QuotesBefore(inner, q) % 2 = 0}
         IN  [k \in 1..Cardinality(kept) |-> inner[Nth(kept, k)]]
    ELSE raw

\* the record whose text is data[from..to-1], data[to] being its line end
RecordAt(data, sep, from, to) ==
    LET cuts == {p \in FieldEnds(data, sep) : from <= p /\ p < to}
        n == Cardinality(cuts) + 1
    IN  [k \in 1..n |->
            Unquote(SubSeq(data,
                           IF k = 1 THEN from ELSE Nth(cuts, k - 1) + 1,
                           IF k = n THEN to - 1 ELSE Nth(cuts, k) - 1))]

Records(data, sep) ==
    LET ends == RecordEnds(data)
    IN  [r \in 1..Cardinality(ends) |->
            RecordAt(data, sep, IF r = 1 THEN 1 ELSE Nth(ends, r - 1) + 1, Nth(ends, r))]

\* ------------------------------------------------- vocabulary of the claims
Returned == pc = "done"
Succeeded == Returned /\ ret.err = NoErr
Output == ret.bytes.data

\* the delimiters the specification accepts, and the separator each stands for
TabWords == {<<"t", "a", "b">>, <<"T", "A", "B">>, <<"T", "a", "b">>}
CommaDelimiters == {<<>>, <<COMMA>>}
TabDelimiters == {<<TABCH>>} \cup TabWords
Separator(d) == IF d \in CommaDelimiters THEN COMMA ELSE TABCH
DelimiterOK(d) == d \in CommaDelimiters \cup TabDelimiters
FieldsOK(fs) == Len(fs) >= 1
PassesValidation(o) == DelimiterOK(o.Delimiter) /\ FieldsOK(o.Fields) /\ o.RowCount >= 1

IsAuto(f) == f.Function = "autoincrement"
IsUnknown(f) == ~IsAuto(f) /\ f.Function \notin FuncLookups
UnknownColumns(fs) == {j \in 1..Len(fs) : IsUnknown(fs[j])}
Min(S) == CHOOSE x \in S : \A y \in S : x <= y
NoCallFailed == \A c \in 1..Len(calls) : calls[c].out.err = NoErr

\* ---------------------------------------------------------------------- C1
\* C1: validation is delimiter, then fields, then row count, and the first
\* failing check decides the error: a bad delimiter gives the invalid-delimiter
\* error whatever the fields and the row count are; with a good delimiter an
\* empty field list gives the missing-fields error whatever the row count is;
\* the missing-row-count error is returned only when delimiter and fields are
\* both valid (and then whenever the row count is <= 0).
C1_ValidationOrder ==
    Returned =>
        /\ ~DelimiterOK(passed.Delimiter) => ret.err = ErrInvalidDelimiter
        /\ (DelimiterOK(passed.Delimiter) /\ ~FieldsOK(passed.Fields))
              => ret.err = ErrMissingFields
        /\ ret.err = ErrMissingRowCount
              <=> (DelimiterOK(passed.Delimiter) /\ FieldsOK(passed.Fields)
                   /\ passed.RowCount <= 0)

C1_Witness ==
    /\ Returned
    /\ passed.Delimiter = <<TABCH>>
    /\ passed.Fields = <<>>
    /\ passed.RowCount = 0
    /\ ret.err = ErrMissingFields

\* ---------------------------------------------------------------------- C2
\* C2 as stated: every request with a row count <= 0 gets the
\* missing-row-count error, whatever its fields (and delimiter) are.
C2_AsStated == (Returned /\ passed.RowCount <= 0) => ret.err = ErrMissingRowCount

\* C2 amended: a request with a row count <= 0 whose delimiter is valid and
\* whose field list is not empty gets the missing-row-count error, with nil
\* bytes and before anything is written or looked up.
C2_RowCountAfterFields ==
    (Returned /\ passed.RowCount <= 0 /\ DelimiterOK(passed.Delimiter)
       /\ FieldsOK(passed.Fields))
    => /\ ret = [bytes |-> NilBytes, err |-> ErrMissingRowCount]
       /\ grid = <<>>
       /\ lookups = <<>>

C2_Witness ==
    /\ Returned
    /\ passed.RowCount = 0
    /\ passed.Delimiter = <<COMMA>>
    /\ Len(passed.Fields) = 2
    /\ ret.err = ErrMissingRowCount

\* ---------------------------------------------------------------------- C3
\* C3: a request that passes validation with rowCount = N and in which no
\* lookup and no generator call fails returns output that reads back as N
\* records: the header and N - 1 body rows.
C3_RowCount ==
    (Returned /\ PassesValidation(passed) /\ NoCallFailed
       /\ \A l \in 1..Len(lookups) : lookups[l] \in FuncLookups)
    => /\ ret.err = NoErr
       /\ ~ret.bytes.nil
       /\ Len(Records(Output, Separator(passed.Delimiter))) = passed.RowCount
       /\ Len(grid) = 1 + (passed.RowCount - 1)

C3_Witness ==
    /\ Succeeded
    /\ passed.RowCount = 3
    /\ Len(calls) = 2
    /\ Len(Records(Output, Separator(passed.Delimiter))) = 3

\* ---------------------------------------------------------------------- C4
\* C4: "" stands for comma, every case variant of "tab" for the tab
\* character, comma and tab for themselves; any other delimiter returns the
\* invalid-delimiter error and no output. On success every row, the header
\* included, is separated by the normalized character: read back with it, the
\* output is the rows that were written.
C4_Delimiter ==
    Returned =>
        /\ ~DelimiterOK(passed.Delimiter)
              => /\ ret = [bytes |-> NilBytes, err |-> ErrInvalidDelimiter]
                 /\ grid = <<>>
                 /\ b = <<>>
        /\ DelimiterOK(passed.Delimiter) => ret.err # ErrInvalidDelimiter
        /\ Succeeded
              => /\ w.Comma = Separator(passed.Delimiter)
                 /\ Records(Output, Separator(passed.Delimiter)) = grid
                 /\ \A r \in 1..Len(grid) : Len(grid[r]) = Len(passed.Fields)

C4_Witness ==
    /\ Succeeded
    /\ passed.Delimiter = <<"T", "a", "b">>
    /\ Len(passed.Fields) = 2
    /\ Len(grid) = 3
    /\ w.Comma = TABCH

\* ---------------------------------------------------------------------- C5
\* C5: an autoincrement field holds, in body row k, the decimal string of k;
\* so all autoincrement fields of a row agree; and autoincrement is never
\* looked up or called: lookups and calls are made for the other fields only.
C5_Autoincrement ==
    /\ \A r \in 2..Len(grid) : \A j \in 1..Len(passed.Fields) :
          IsAuto(passed.Fields[j]) => grid[r][j] = SprintD(r - 1)
    /\ \A l \in 1..Len(lookups) : lookups[l] # "autoincrement"
    /\ \A c \in 1..Len(calls) : ~IsAuto(passed.Fields[calls[c].col])
    /\ Succeeded
          => /\ LET recs == Records(Output, w.Comma)
                IN  \A r \in 2..Len(recs) : \A j \in 1..Len(passed.Fields) :
                       IsAuto(passed.Fields[j]) => recs[r][j] = SprintD(r - 1)
             /\ Len(lookups) = (passed.RowCount - 1)
                    * Cardinality({j \in 1..Len(passed.Fields) : ~IsAuto(passed.Fields[j])})

C5_Witness ==
    /\ Succeeded
    /\ passed.RowCount = 3
    /\ Len(passed.Fields) = 2
    /\ \A j \in 1..2 : IsAuto(passed.Fields[j])
    /\ grid[2] = <<<<"1">>, <<"1">>>>
    /\ grid[3] = <<<<"2">>, <<"2">>>>
    /\ lookups = <<>>

\* ---------------------------------------------------------------------- C6
\* C6 as stated: a request that passes validation and has a field naming an
\* unknown generator returns the unknown-function error and no output.
C6_AsStated ==
    (Returned /\ PassesValidation(passed) /\ UnknownColumns(passed.Fields) # {})
    => /\ ret.bytes = NilBytes
       /\ \E j \in UnknownColumns(passed.Fields) :
             ret.err = ErrInvalidFunction(passed.Fields[j].Function)

\* C6 amended: a request that passes validation with a row count >= 2, has a
\* field naming an unknown generator, and in which no generator call fails,
\* returns the unknown-function error of the first such field, with nil bytes,
\* when body row 1 reaches it. With a row count of 1 no field is resolved and
\* the header-only table is returned; when a generator called earlier fails,
\* that generator's error is returned.
C6_UnknownFunction ==
    (Returned /\ PassesValidation(passed) /\ UnknownColumns(passed.Fields) # {})
    => LET j == Min(UnknownColumns(passed.Fields))
       IN  /\ (passed.RowCount >= 2 /\ NoCallFailed)
                 => /\ ret = [bytes |-> NilBytes,
                              err |-> ErrInvalidFunction(passed.Fields[j].Function)]
                    /\ b = <<>>
                    /\ Len(grid) = 1
           /\ passed.RowCount = 1
                 => /\ ret.err = NoErr
                    /\ Records(Output, w.Comma)
                          = <<[k \in 1..Len(passed.Fields) |-> passed.Fields[k].Name]>>
           /\ ~NoCallFailed => ret.err = calls[Len(calls)].out.err

C6_Witness ==
    /\ Returned
    /\ passed.RowCount = 2
    /\ Len(passed.Fields) = 2
    /\ IsAuto(passed.Fields[1])
    /\ IsUnknown(passed.Fields[2])
    /\ ret = [bytes |-> NilBytes, err |-> ErrInvalidFunction(passed.Fields[2].Function)]

\* ---------------------------------------------------------------------- C7
\* C7: when a generator call fails in body row k, CSV stops at that cell: the
\* call is the last one made, CSV has returned that very error with nil bytes,
\* the header and the k - 1 earlier rows stay in the writer and are not
\* returned, and no later cell of the row was resolved.
C7_GeneratorError ==
    \A c \in 1..Len(calls) :
        calls[c].out.err # NoErr
        => /\ c = Len(calls)
           /\ Returned
           /\ ret = [bytes |-> NilBytes, err |-> calls[c].out.err]
           /\ lookups[Len(lookups)] = calls[c].fn
           /\ Len(grid) = calls[c].row
           /\ i = calls[c].row /\ ii = calls[c].col
           /\ \A j \in calls[c].col..Len(passed.Fields) : vr[j] = <<>>
           /\ b = <<>>

C7_Witness ==
    /\ Returned
    /\ Len(calls) >= 2
    /\ calls[Len(calls)].out.err = ErrBoom
    /\ calls[Len(calls)].row = 2
    /\ Len(grid) = 2
    /\ w.pending # <<>>
    /\ ret = [bytes |-> NilBytes, err |-> ErrBoom]

\* ---------------------------------------------------------------------- C8
\* C8: when CSV has returned, the caller's CSVOptions (Delimiter, RowCount,
\* Fields) is what it was when CSV was called.
C8_RequestUnchanged == Returned => co = passed

\* ---------------------------------------------------------------------- C9
\* C9: successful output reads back as a header of len(fields) cells, cell j
\* the name of field j, and body rows of len(fields) cells, cell j the value
\* resolved for field j (the string of what the call for that row and column
\* returned, or the row index for autoincrement).
C9_Columns ==
    Succeeded =>
        LET recs == Records(Output, w.Comma)
            n == Len(passed.Fields)
        IN  /\ Len(recs) >= 1
            /\ \A r \in 1..Len(recs) : Len(recs[r]) = n
            /\ \A j \in 1..n : recs[1][j] = passed.Fields[j].Name
            /\ \A c \in 1..Len(calls) :
                  /\ calls[c].fn = passed.Fields[calls[c].col].Function
                  /\ recs[calls[c].row + 1][calls[c].col] = SprintV(calls[c].out.value)
            /\ \A r \in 2..Len(recs) : \A j \in 1..n :
                  IF IsAuto(passed.Fields[j])
                  THEN recs[r][j] = SprintD(r - 1)
                  ELSE \E c \in 1..Len(calls) : calls[c].row = r - 1 /\ calls[c].col = j

C9_Witness ==
    /\ Succeeded
    /\ passed.RowCount = 2
    /\ passed.Fields = <<Field(<<"i", "d">>, "number"), Field(<<"i", "d">>, "autoincrement")>>
    /\ Records(Output, w.Comma) = <<<<<<"i", "d">>, <<"i", "d">>>>, <<<<"-", "1", "2">>, <<"1">>>>>>

\* --------------------------------------------------------------------- C10
ExampleRequest ==
    [Delimiter |-> <<COMMA>>,
     RowCount |-> 3,
     Fields |-> <<Field(<<"i", "d">>, "autoincrement"),
                  Field(<<"g", "r", "e", "e", "t", "i", "n", "g">>, "greeting")>>]

HeaderLine == <<"i", "d", ",", "g", "r", "e", "e", "t", "i", "n", "g", NL>>
BodyLine(k) == <<k, ",", QUOTE, "h", "i", ",", " ", "t", "h", "e", "r", "e", QUOTE, NL>>

\* C10 as stated: the example request (id autoincrement, greeting "hi, there",
\* rowCount 3, delimiter ",") outputs the header and one body row.
C10_AsStated ==
    (Returned /\ passed = ExampleRequest)
    => /\ ret.err = NoErr
       /\ Output = HeaderLine \o BodyLine("1")

\* C10 amended: the example request outputs the header line id,greeting
\* followed by two body rows, 1,"hi, there" and 2,"hi, there".
C10_Example ==
    (Returned /\ passed = ExampleRequest)
    => /\ ret.err = NoErr
       /\ ~ret.bytes.nil
       /\ Output = HeaderLine \o BodyLine("1") \o BodyLine("2")

C10_Witness ==
    /\ Succeeded
    /\ passed = ExampleRequest
    /\ Len(grid) = 3

====
